---- MODULE Spec2Model ----
(***************************************************************************)
(* Model of app.py, the Streamlit page of the "Equity Research News Tool". *)
(*                                                                         *)
(* Streamlit re-executes the whole script from top to bottom once per user *)
(* interaction (a "page cycle").  State that survives between cycles is    *)
(* the widget state (query_input, the slider, the TTL number input), the   *)
(* session history and the st.cache_data store of get_summary_cached_ui.   *)
(* Every action below is one interaction followed by the complete script   *)
(* run it triggers; the script's locals and what it rendered are kept in   *)
(* variables so that properties can speak about them.                      *)
(***************************************************************************)
EXTENDS Integers, Sequences, FiniteSets, TLC

(* ------------------------------ bounds --------------------------------- *)
\* longest history of the short-history specification
MaxHistory == 2
\* longest history of the long-history specification (beyond the display cap)
MaxLongHistory == 11
\* number of clock advances
MaxTicks == 2

(* -------------------------- program constants -------------------------- *)
\* st.cache_data(ttl=60 * 60 * 24), in seconds
CacheTtlSeconds == 60 * 60 * 24
\* history[:10]
DisplayCap == 10
\* slider default
DefaultMaxArticles == 20
\* number_input default
DefaultCacheTtlMinutes == 60

(* ------------------------------ strings -------------------------------- *)
\* query strings are sequences of characters
Whitespace == {" "}

RECURSIVE lstrip(_)
lstrip(s) ==
  IF s = <<>> THEN s
  ELSE IF Head(s) \in Whitespace THEN lstrip(Tail(s)) ELSE s

RECURSIVE rstrip(_)
rstrip(s) ==
  IF s = <<>> THEN s
  ELSE IF s[Len(s)] \in Whitespace THEN rstrip(SubSeq(s, 1, Len(s) - 1)) ELSE s

strip(s) == rstrip(lstrip(s))

\* a validation that forgets whitespace-only text
BlankQueryNoStrip(q) == q = <<>>

\* `not query or not query.strip()`
BlankQuery(q) == q = <<>> \/ strip(q) = <<>>

\* texts the user types: "", "a", "  ", " b "
QueryTexts == { <<>>, <<"a">>, <<" ", " ">>, <<" ", "b", " ">> }
SliderValues == {5, DefaultMaxArticles}
TtlValues == {1, DefaultCacheTtlMinutes}
\* clock advances, in seconds: half a day
TickSteps == {CacheTtlSeconds \div 2}

(* ----------------------------- summaries ------------------------------- *)
\* A summary value: None, "" or a non-empty text.  A non-empty text is
\* identified by the arguments get_summary_cached_module produced it for and
\* by which of its possible outputs it is.
MkSummary(kind, q, m, v) ==
  [kind |-> kind, query |-> q, max_articles |-> m, variant |-> v]
Unset == MkSummary("unset", <<>>, 0, 0)
NoneSummary == MkSummary("None", <<>>, 0, 0)

\* a test that only rules out None
TruthyNotNone(s) == s.kind \in {"text", "empty"}

\* `if summary:`
Truthy(s) == s.kind = "text"

\* what one call of get_summary_cached_module(q, m) does
ModuleReturn(produced, q, m) ==
  IF produced.kind = "text" THEN MkSummary("text", q, m, produced.variant)
  ELSE MkSummary(produced.kind, <<>>, 0, 0)

ModuleRaises == [kind |-> "None", variant |-> 0, raises |-> TRUE]
ModuleNone == [kind |-> "None", variant |-> 0, raises |-> FALSE]
ModuleEmpty == [kind |-> "empty", variant |-> 0, raises |-> FALSE]
ModuleText(v) == [kind |-> "text", variant |-> v, raises |-> FALSE]

\* what one call of get_news_articles does
FetchRaises == [raises |-> TRUE, articles |-> <<>>]
FetchNothing == [raises |-> FALSE, articles |-> <<>>]
FetchArticles == [raises |-> FALSE, articles |-> <<"wellformed">>]
FetchMalformed == [raises |-> FALSE, articles |-> <<"malformed">>]

(* ------------------------------- state --------------------------------- *)
VARIABLES
  query_input,        \* st.session_state['query_input'], the query box
  max_articles,       \* slider value
  cache_ttl_minutes,  \* number input value
  has_history,        \* "history" in st.session_state
  history,            \* st.session_state.history
  ui_cache,           \* st.cache_data store of get_summary_cached_ui
  now,                \* wall clock, seconds
  ticks,              \* clock advances so far
  clicked,            \* the widget whose interaction started the last cycle
  run_button,         \* script local of the last cycle
  articles,           \* script local of the last cycle
  summary,            \* script local of the last cycle
  calls,              \* helper calls of the last cycle, in order
  selectbox_shown,    \* the "Recent queries" selectbox was rendered
  selectbox_options,  \* its options
  sidebar_shown,      \* the sidebar "Recent queries" section was rendered
  load_buttons,       \* queries of the "Load: ..." buttons rendered
  devtools_shown,     \* the developer expander was rendered
  error               \* uncaught exception that stopped the script

vars == << query_input, max_articles, cache_ttl_minutes, has_history, history,
           ui_cache, now, ticks, clicked, run_button, articles, summary, calls,
           selectbox_shown, selectbox_options, sidebar_shown, load_buttons,
           devtools_shown, error >>

(* ------------------------- st.cache_data store ------------------------- *)
\* a key that leaves the query out
CacheKeyByMaxArticles(q, m) ==
  [query |-> <<>>, max_articles |-> m, ttl_override |-> "None"]

\* the arguments of get_summary_cached_ui form the cache key; ttl_override is
\* never passed and is always None
CacheKey(q, m) == [query |-> q, max_articles |-> m, ttl_override |-> "None"]

\* an expiry after one hour instead of one day
FreshForAnHour(entry, t) == t - entry.stored_at < 60 * 60

\* an entry is served while its age is below the decorator's ttl
Fresh(entry, t) == t - entry.stored_at < CacheTtlSeconds

CachePut(cache, key, value, t) ==
  { e \in cache : e.key # key }
    \cup { [stored_at |-> t, key |-> key, value |-> value] }

\* st.cache_data.clear()
CacheClear(cache) == {}

\* @st.cache_data(ttl=60 * 60 * 24) def get_summary_cached_ui(query, max_articles)
\* returns the value, the store afterwards, and whether the body ran
get_summary_cached_ui(cache, q, m, t, produced) ==
  LET key == CacheKey(q, m)
      hits == { e \in cache : e.key = key /\ Fresh(e, t) }
  IN IF hits # {}
     THEN [cache |-> cache, value |-> (CHOOSE e \in hits : TRUE).value,
           raised |-> FALSE, module_called |-> FALSE]
     ELSE IF produced.raises
     THEN [cache |-> cache, value |-> Unset,
           raised |-> TRUE, module_called |-> TRUE]
     ELSE [cache |-> CachePut(cache, key, ModuleReturn(produced, q, m), t),
           value |-> ModuleReturn(produced, q, m),
           raised |-> FALSE, module_called |-> TRUE]

(* ------------------------------ history -------------------------------- *)
Min(a, b) == IF a < b THEN a ELSE b

\* history[:n]
FirstN(h, n) == SubSeq(h, 1, Min(n, Len(h)))

\* [h['query'] for h in ...]
QueriesOf(h) == [i \in 1..Len(h) |-> h[i].query]

\* an insert that also cuts the stored list to what is displayed
InsertFirstCapped(h, q, s) ==
  FirstN(<< [query |-> q, summary |-> s] >> \o h, DisplayCap)

\* st.session_state.history.insert(0, {"query": query, "summary": summary})
InsertFirst(h, q, s) == << [query |-> q, summary |-> s] >> \o h

(* --------------------------- the page script --------------------------- *)
NoClick == [widget |-> "none", index |-> 0]
RunClick == [widget |-> "run", index |-> 0]
ClearAllClick == [widget |-> "clear_all", index |-> 0]
ClearStreamlitClick == [widget |-> "clear_streamlit", index |-> 0]
LoadClick(i) == [widget |-> "load", index |-> i]

\* sidebar, line 82: the clear_all button clears the Streamlit cache, then the
\* module cache; an exception of clear_module_cache stops the script
SidebarControls(click, cache, clear_ok) ==
  IF click.widget = "clear_all"
  THEN [error |-> IF clear_ok THEN "none" ELSE "clear_module_cache",
        cache |-> CacheClear(cache)]
  ELSE [error |-> "none", cache |-> cache]

\* main area, lines 95-99: the selectbox of the history as it is at this point
HistorySelectbox(has, hist) ==
  IF has /\ hist # <<>>
  THEN [shown |-> TRUE, options |-> QueriesOf(FirstN(hist, DisplayCap))]
  ELSE [shown |-> FALSE, options |-> <<>>]

\* pretty_article_card and the token estimate input read every article with
\* dict methods; an article that is not shaped like one raises
RenderRaises(arts) == \E i \in 1..Len(arts) : arts[i] = "malformed"

\* lines 103-167
RunFlow(run, q, m, cache, has, hist, t, fetched, produced) ==
  LET idle == [articles |-> <<>>, has_history |-> has, history |-> hist,
               summary |-> Unset, calls |-> <<>>, error |-> "none",
               cache |-> cache]
      arts == IF fetched.raises THEN <<>> ELSE fetched.articles
      got == get_summary_cached_ui(cache, q, m, t, produced)
      summ == IF got.raised THEN NoneSummary ELSE got.value
      summ_calls == IF got.module_called
                    THEN <<"get_summary_cached_ui", "get_summary_cached_module">>
                    ELSE <<"get_summary_cached_ui">>
  IN IF ~run THEN idle
     ELSE IF BlankQuery(q) THEN idle
     ELSE IF arts = <<>>
     THEN [idle EXCEPT !.calls = <<"get_news_articles">>]
     ELSE IF RenderRaises(arts)
     THEN [idle EXCEPT !.articles = arts, !.calls = <<"get_news_articles">>,
                       !.error = "render"]
     ELSE [articles |-> arts,
           has_history |-> has \/ Truthy(summ),
           history |-> IF Truthy(summ) THEN InsertFirst(hist, q, summ) ELSE hist,
           summary |-> summ,
           calls |-> <<"get_news_articles">> \o summ_calls,
           error |-> "none",
           cache |-> got.cache]

\* lines 169-177: one Load button per shown record; the clicked one assigns
\* st.session_state['query_input'].  The text_input with key "query_input" was
\* instantiated earlier in the same script run (line 63), and Streamlit refuses
\* such an assignment with StreamlitAPIException, which stops the script.
SidebarHistory(click, has, hist) ==
  LET shownRecs == FirstN(hist, DisplayCap) IN
  IF ~(has /\ hist # <<>>)
  THEN [error |-> "none", shown |-> FALSE, buttons |-> <<>>]
  ELSE IF click.widget = "load" /\ click.index < Len(shownRecs)
  THEN [error |-> "StreamlitAPIException",
        shown |-> TRUE,
        buttons |-> QueriesOf(SubSeq(shownRecs, 1, click.index + 1))]
  ELSE [error |-> "none", shown |-> TRUE, buttons |-> QueriesOf(shownRecs)]

\* lines 180-188
DeveloperTools(click, cache) ==
  IF click.widget = "clear_streamlit" THEN CacheClear(cache) ELSE cache

\* one page cycle: the interaction `click` with the widget values qi, ma, ttl,
\* and the whole script run that follows it
Cycle(click, qi, ma, ttl, fetched, produced, clear_ok) ==
  LET side == SidebarControls(click, ui_cache, clear_ok)
      ok1 == side.error = "none"
      sel == IF ok1 THEN HistorySelectbox(has_history, history)
             ELSE [shown |-> FALSE, options |-> <<>>]
      flow == IF ok1
              THEN RunFlow(click.widget = "run", qi, ma, side.cache, has_history,
                           history, now, fetched, produced)
              ELSE RunFlow(FALSE, qi, ma, side.cache, has_history, history,
                           now, fetched, produced)
      ok2 == ok1 /\ flow.error = "none"
      bar == IF ok2 THEN SidebarHistory(click, flow.has_history, flow.history)
             ELSE [error |-> "none", shown |-> FALSE, buttons |-> <<>>]
      ok3 == ok2 /\ bar.error = "none"
  IN /\ query_input' = qi
     /\ max_articles' = ma
     /\ cache_ttl_minutes' = ttl
     /\ clicked' = click
     /\ run_button' = (click.widget = "run")
     /\ articles' = flow.articles
     /\ summary' = flow.summary
     /\ calls' = flow.calls
     /\ has_history' = flow.has_history
     /\ history' = flow.history
     /\ ui_cache' = IF ok3 THEN DeveloperTools(click, flow.cache) ELSE flow.cache
     /\ selectbox_shown' = sel.shown
     /\ selectbox_options' = sel.options
     /\ sidebar_shown' = bar.shown
     /\ load_buttons' = bar.buttons
     /\ devtools_shown' = ok3
     /\ error' = IF ~ok1 THEN side.error
                 ELSE IF ~ok2 THEN flow.error ELSE bar.error
     /\ UNCHANGED << now, ticks >>

(* ------------------------------ actions -------------------------------- *)
\* the first script run of a session: default widget values, nothing clicked
Init ==
  /\ query_input = <<>>
  /\ max_articles = DefaultMaxArticles
  /\ cache_ttl_minutes = DefaultCacheTtlMinutes
  /\ has_history = FALSE
  /\ history = <<>>
  /\ ui_cache = {}
  /\ now = 0
  /\ ticks = 0
  /\ clicked = NoClick
  /\ run_button = FALSE
  /\ articles = <<>>
  /\ summary = Unset
  /\ calls = <<>>
  /\ selectbox_shown = FALSE
  /\ selectbox_options = <<>>
  /\ sidebar_shown = FALSE
  /\ load_buttons = <<>>
  /\ devtools_shown = TRUE
  /\ error = "none"

NoFetch == FetchNothing
NoModule == ModuleNone

\* the user commits a new text in the query box
EditQuery(texts) ==
  \E q \in texts :
    /\ q # query_input
    /\ Cycle(NoClick, q, max_articles, cache_ttl_minutes, NoFetch, NoModule, TRUE)

\* the user moves the "Max articles" slider
MoveSlider(values) ==
  \E m \in values :
    /\ m # max_articles
    /\ Cycle(NoClick, query_input, m, cache_ttl_minutes, NoFetch, NoModule, TRUE)

\* the user changes "Cache TTL (minutes)"
SetCacheTtl(values) ==
  \E t \in values :
    /\ t # cache_ttl_minutes
    /\ Cycle(NoClick, query_input, max_articles, t, NoFetch, NoModule, TRUE)

\* the user picks an option of the "Recent queries" selectbox
SelectRecent ==
  /\ selectbox_shown
  /\ Cycle(NoClick, query_input, max_articles, cache_ttl_minutes,
           NoFetch, NoModule, TRUE)

\* "Run - Fetch & Summarize"
ClickRun(maxLen, fetches, modules) ==
  /\ Len(history) < maxLen
  /\ \E fetched \in fetches, produced \in modules :
       Cycle(RunClick, query_input, max_articles, cache_ttl_minutes,
             fetched, produced, TRUE)

\* "Clear module & streamlit caches"
ClickClearAll ==
  \E clear_ok \in BOOLEAN :
    Cycle(ClearAllClick, query_input, max_articles, cache_ttl_minutes,
          NoFetch, NoModule, clear_ok)

\* "Load: <query>", button load_i of the sidebar as last rendered
ClickLoad(indices) ==
  \E i \in indices :
    /\ i < Len(load_buttons)
    /\ Cycle(LoadClick(i), query_input, max_articles, cache_ttl_minutes,
             NoFetch, NoModule, TRUE)

\* "Clear Streamlit cache only", inside the developer expander
ClickClearStreamlit ==
  /\ devtools_shown
  /\ Cycle(ClearStreamlitClick, query_input, max_articles, cache_ttl_minutes,
           NoFetch, NoModule, TRUE)

\* time passes between two interactions
Tick ==
  /\ ticks < MaxTicks
  /\ \E d \in TickSteps : now' = now + d
  /\ ticks' = ticks + 1
  /\ UNCHANGED << query_input, max_articles, cache_ttl_minutes, has_history,
                  history, ui_cache, clicked, run_button, articles, summary,
                  calls, selectbox_shown, selectbox_options, sidebar_shown,
                  load_buttons, devtools_shown, error >>

\* every way a run can end and every control of the page but the slider, with
\* a summarizer that gives one text per input; a short history
Next ==
  \/ EditQuery(QueryTexts)
  \/ SetCacheTtl(TtlValues)
  \/ SelectRecent
  \/ ClickRun(MaxHistory,
              {FetchNothing, FetchArticles, FetchMalformed, FetchRaises},
              {ModuleNone, ModuleRaises, ModuleText(1), ModuleEmpty})
  \/ ClickClearAll
  \/ ClickLoad(0..(DisplayCap - 1))
  \/ ClickClearStreamlit
  \/ Tick

Spec == Init /\ [][Next]_vars

\* the cache over time: two queries, two slider positions, a summarizer whose
\* text varies from call to call
NextCache ==
  \/ EditQuery({ <<>>, <<"a">>, <<" ", "b", " ">> })
  \/ MoveSlider(SliderValues)
  \/ ClickRun(MaxHistory, {FetchNothing, FetchArticles},
              {ModuleRaises, ModuleText(1), ModuleText(2)})
  \/ ClickClearAll
  \/ ClickClearStreamlit
  \/ Tick

SpecCache == Init /\ [][NextCache]_vars

\* a long session: the history grows beyond what the page displays
NextSession ==
  \/ EditQuery({ <<>>, <<"a">>, <<" ", "b", " ">> })
  \/ SelectRecent
  \/ ClickRun(MaxLongHistory,
              {FetchNothing, FetchArticles, FetchMalformed, FetchRaises},
              {ModuleRaises, ModuleText(1)})
  \/ ClickLoad({0, DisplayCap - 1})

SpecSession == Init /\ [][NextSession]_vars

(* ----------------------------- properties ------------------------------ *)
Range(f) == { f[i] : i \in DOMAIN f }
Count(f, x) == Cardinality({ i \in DOMAIN f : f[i] = x })

\* a step that is a page cycle (the clock stands still while the script runs)
IsCycle == now' = now

\* a text with at least one character that is not whitespace
NonBlank(q) == \E i \in 1..Len(q) : q[i] \notin Whitespace

\* the last cycle was a successful run: Run pressed, non-blank query,
\* non-empty article list, non-empty summary
SuccessfulRun ==
  /\ run_button
  /\ NonBlank(query_input)
  /\ articles # <<>>
  /\ summary.kind = "text"

WrapperCalled == "get_summary_cached_ui" \in Range(calls)
ModuleCalled == "get_summary_cached_module" \in Range(calls)

\* C1: every successful run puts exactly one record, the query and summary of
\* that run, at the front of the history and moves every earlier record down
\* by one with its order kept; no other cycle changes the length, so the
\* length counts the successful runs (no deduplication, no truncation).
C1_HistoryMostRecentFirst ==
  [][ IsCycle =>
        IF SuccessfulRun'
        THEN /\ has_history'
             /\ Len(history') = Len(history) + 1
             /\ history'[1] = [query |-> query_input', summary |-> summary']
             /\ \A i \in 1..Len(history) : history'[i + 1] = history[i]
        ELSE Len(history') = Len(history) ]_vars

\* a run has just succeeded on a history longer than what the page displays,
\* and the two most recent records differ
C1_Witness ==
  /\ SuccessfulRun
  /\ Len(history) > DisplayCap
  /\ history[1].query # history[2].query

\* C2: whenever the history is displayed, the selectbox and the sidebar list
\* show the ten most recent successful runs (all when fewer), most recent
\* first, in every cycle.
C2_DisplayShowsTenMostRecent ==
  /\ selectbox_shown =>
       selectbox_options =
         [i \in 1..Min(DisplayCap, Len(history)) |-> history[i].query]
  /\ sidebar_shown =>
       load_buttons =
         [i \in 1..Min(DisplayCap, Len(history)) |-> history[i].query]

\* C3: every record holds a non-blank query and the non-empty summary that
\* get_summary_cached_ui returned for exactly that query and the max_articles
\* of the same run; no record pairs a query with another query's summary.
C3_RecordPairsQueryWithItsSummary ==
  /\ [](\A i \in 1..Len(history) :
          /\ NonBlank(history[i].query)
          /\ history[i].summary.kind = "text"
          /\ history[i].summary.query = history[i].query)
  /\ [][ Len(history') > Len(history) =>
           /\ WrapperCalled'
           /\ history'[1].query = query_input'
           /\ history'[1].summary = summary'
           /\ summary'.query = query_input'
           /\ summary'.max_articles = max_articles' ]_vars

\* a run has just saved its record while the cache also held the summary of
\* another query, whose record is in the history too
C3_Witness ==
  /\ SuccessfulRun
  /\ Len(history) = 2
  /\ history[1].query # history[2].query
  /\ Cardinality(ui_cache) = 2

\* C4: a cycle that is not a successful run leaves the history as it was and
\* does not create it.
C4_FailedCycleKeepsHistory ==
  [][ (IsCycle /\ ~SuccessfulRun') =>
        (history' = history /\ has_history' = has_history) ]_vars

\* a run on an existing history got an empty summary
C4_Witness ==
  /\ has_history
  /\ run_button
  /\ articles # <<>>
  /\ summary.kind = "empty"

\* C5: in one cycle get_news_articles and get_summary_cached_ui are each
\* called at most once, the fetch before the summary call, the summary call
\* only after a fetch that returned articles, and neither without the Run
\* button or with a blank query.
C5_OneFetchThenOneSummary ==
  /\ Count(calls, "get_news_articles") <= 1
  /\ Count(calls, "get_summary_cached_ui") <= 1
  /\ \A i, j \in DOMAIN calls :
       (calls[i] = "get_news_articles" /\ calls[j] = "get_summary_cached_ui")
         => i < j
  /\ WrapperCalled => ("get_news_articles" \in Range(calls) /\ articles # <<>>)
  /\ (~run_button \/ ~NonBlank(query_input)) => calls = <<>>

\* a run that fetched and then summarized
C5_Witness ==
  /\ run_button
  /\ calls = <<"get_news_articles", "get_summary_cached_ui",
               "get_summary_cached_module">>

\* C6: a cached summary is reused exactly while its age is below the
\* "Cache TTL (minutes)" chosen in the sidebar.
C6_SidebarTtlGovernsExpiry ==
  [][ (IsCycle /\ WrapperCalled') =>
        (~ModuleCalled' <=>
           \E e \in ui_cache :
             /\ e.key.query = query_input'
             /\ e.key.max_articles = max_articles'
             /\ now - e.stored_at < cache_ttl_minutes' * 60) ]_vars

\* C7: a click on Load button i sets the query box to the query of record i,
\* calls neither helper and leaves the history unchanged.
C7_LoadSetsQueryInput ==
  [][ (IsCycle /\ clicked'.widget = "load") =>
        /\ query_input' = history[clicked'.index + 1].query
        /\ calls' = <<>>
        /\ history' = history ]_vars

\* C8: the summary is cached per (query, max_articles).  While an entry of the
\* pair is younger than the wrapper's ttl and no clear button was pressed, a
\* run gets the entry's summary without a call of get_summary_cached_module;
\* entries never serve another pair; both clear buttons empty the cache, and
\* a run that finds no live entry calls get_summary_cached_module.
C8_CachedPerQueryAndMaxArticles ==
  /\ [](\A e \in ui_cache :
          /\ e.value.kind = "text" =>
               /\ e.value.query = e.key.query
               /\ e.value.max_articles = e.key.max_articles
          /\ \A f \in ui_cache : f.key = e.key => f = e)
  /\ [][ (IsCycle /\ WrapperCalled') =>
           LET live == { e \in ui_cache :
                           /\ e.key.query = query_input'
                           /\ e.key.max_articles = max_articles'
                           /\ now - e.stored_at < CacheTtlSeconds }
           IN IF live # {}
              THEN ~ModuleCalled' /\ \A e \in live : summary' = e.value
              ELSE ModuleCalled' ]_vars
  /\ [][ IsCycle =>
           IF clicked'.widget \in {"clear_all", "clear_streamlit"}
           THEN ui_cache' = {}
           ELSE \A e \in ui_cache :
                  now - e.stored_at < CacheTtlSeconds =>
                    \E f \in ui_cache' : f.key = e.key /\ f.stored_at = e.stored_at
         ]_vars

\* half a day after the summary was cached, a run was served from the cache
C8_Witness ==
  /\ SuccessfulRun
  /\ WrapperCalled
  /\ ~ModuleCalled
  /\ \E e \in ui_cache : e.value = summary /\ now - e.stored_at > 0

====
